---- MODULE Spec2Model ----
(***************************************************************************)
(* rPPG capture pipeline of biosens_AdVi: the SignalProcessor singleton    *)
(* (src/services/signalProcessing.ts) and the capture-phase state machine  *)
(* of the App component (src/App.tsx).                                     *)
(*                                                                         *)
(* Numbers.  The code computes in IEEE doubles.  BPM, RMSSD, stress and    *)
(* SNR values are kept here in fixed point, in hundredths (72 BPM is 7200, *)
(* an SNR of 1.3 is 130); a multiplication by 0.8 is *8 \div 10.           *)
(*                                                                         *)
(* Scheduling.  React renders a state change some time after the setter    *)
(* ran, and runs the passive effects of that render (useEffect) later      *)
(* still.  Until the effects ran, the frame loop of the VideoFeed keeps    *)
(* calling the handleFrameProcessed closure of the previous render (it     *)
(* captured the previous appState) and the interval of the previous render *)
(* is still live.  A click is a discrete event: React renders it           *)
(* synchronously and runs the pending effects with it.                     *)
(***************************************************************************)
EXTENDS Integers, Sequences, FiniteSets, TLC

VARIABLES
    processor,          \* the SignalProcessor singleton: buffer, timestamps, sessionMetrics, lastBpm
    appState,           \* useState<AppState>
    signalData,         \* useState<SignalDataPoint[]>
    timeLeft,           \* useState(SCAN_DURATION)
    lightingCondition,  \* useState<'good' | 'bad'>
    biomarkers,         \* useState<Biomarkers>
    frameCountRef,      \* useRef(0)
    frameLoopState,     \* the appState captured by the handleFrameProcessed the frame loop calls
    interval,           \* TRUE while the one-second interval of the timer effect is live
    now,                \* Date.now()
    added,              \* history: the (value, timestamp) pairs added since the last reset
    session,            \* history: number of startMonitoring calls
    ticks,              \* history: timer ticks since the last entry to Measuring
    reports,            \* history: getFinalReport calls since the last startMonitoring
    metricsCalls,       \* history: calculateMetrics calls since the last reset
    lastOp,             \* history: the operation that ran last
    lastRet,            \* history: what calculateMetrics returned in the last step (NoEstimate if it did not run)
    faceless,           \* history: every frame stored since the last reset came with hasFace = false
    warmupRef,          \* useRef(0) of the App with a warmup counter (src/unnamed/part_000)
    args,               \* the arguments of the function applied on its own (specifications of single functions)
    result              \* what that function returned

vars == <<processor, appState, signalData, timeLeft, lightingCondition, biomarkers,
          frameCountRef, frameLoopState, interval, now, added, session, ticks,
          reports, metricsCalls, lastOp, lastRet, faceless, warmupRef, args, result>>

appVars == <<appState, signalData, timeLeft, lightingCondition, biomarkers,
             frameCountRef, frameLoopState, interval, session, ticks, reports>>

\* the variables of the specifications of single functions
pureVars == <<args, result>>

-----------------------------------------------------------------------------
(* Bounds of the model.  The capacities and cadences below are the code's,   *)
(* scaled down so that a whole session fits in a few frames; their order     *)
(* MIN_FILTER < MIN_METRICS <= CALIBRATION_SAMPLES < BUFFER_SIZE is the      *)
(* code's (30 < 60 < 90 < 512).  The properties are stated over the names,   *)
(* so that they say the same of the code's values.                           *)

\* constants.ts: BUFFER_SIZE = 512
BUFFER_SIZE == 5
\* processBuffer: buffer.length < 30
MIN_FILTER == 2
\* calculateMetrics: n < 60
MIN_METRICS == 3
\* handleFrameProcessed: getRawSignal().length > 90
CALIBRATION_SAMPLES == 3
\* handleFrameProcessed: frameCountRef.current % 30
METRICS_EVERY == 2
\* handleFrameProcessed: newData.slice(-60)
CHART_POINTS == 2

\* frames handled over a run, sessions started, finishScan calls followed per session
MaxFrames == 7
MaxSessions == 2
MaxReports == 2
\* processor-level specifications: addSample calls since a reset, clock range,
\* samples of a window, calculateMetrics calls since a reset
MaxAdds == 6
MaxClock == 1
MaxWindowLen == 4
MaxWindows == 2
\* the start of one scan: frames stored, timer ticks followed
MaxScanFrames == 8
MaxScanTicks == 2
\* the alternative processor, calculateMetrics: n < 128
ALT_MIN_METRICS == 3
\* windows accepted in the session a report is made of
MaxAccepted == 6
\* samples of the sequence handed to applyFilter on its own
MaxFilterLen == 8
\* the App that feeds the alternative processor (src/unnamed/part_005):
\* getRawSignal().length > 90, frameCountRef.current % 15, frames stored
ALT_CALIBRATION_SAMPLES == 0
ALT_METRICS_EVERY == 2
MaxAltFrames == 6
\* frames the VideoFeed of src/components hands to the App of src/App.tsx
MaxWiredFrames == 9
\* frames stored in the session that is followed to its end
MaxLiveFrames == 6
\* the App with a warmup counter (src/unnamed/part_000):
\* frameCountRef.current % 15, warmupRef.current > FPS * 4 (120),
\* newData.slice(-100), frames stored
WARMUP_EVERY == 2
WARMUP_COUNT == 2
WARMUP_CHART_POINTS == 2
MaxWarmupFrames == 8

-----------------------------------------------------------------------------
(* Program constants, in hundredths where they are compared to fixed point.  *)

SCAN_DURATION == 30
CHART_EVERY == 3
SMOOTH_WIN == 3
SNR_ACCEPT == 130
SNR_LIVE == 110
BPM_LOW == 4500
BPM_HIGH == 18000
BPM_LIVE == 4000
JUMP == 2000
CONFIDENCE_MIN == 5
LIGHT_MIN == 20
LIGHT_MAX == 250
\* the bounds of a peak-to-peak interval, in ms
RR_MIN == 300
RR_MAX == 1300
\* the alternative processor (src/unnamed/part_002)
ALT_SMOOTH_WIN == 4
ALT_SNR_ACCEPT == 150
ALT_BPM_MIN == 4500
ALT_BPM_MAX == 20000
ALT_BPM_DEFAULT == 7500
ALT_CONFIDENCE_MIN == 10
ALT_BPM_REPORT == 72
ALT_HRV_REPORT == 35
ALT_STRESS_REPORT == 40
ALT_RESPIRATION_REPORT == 16
\* the App of src/unnamed/part_005
ALT_CHART_EVERY == 2
ALT_LIGHT_MIN == 30
ALT_LIGHT_MAX == 240
ALT_SNR_LIVE == 120

IDLE == "IDLE"
CALIBRATING == "CALIBRATING"
MEASURING == "MEASURING"
REPORT == "REPORT"
ERROR == "ERROR"

AppState == {IDLE, CALIBRATING, MEASURING, REPORT, ERROR}

-----------------------------------------------------------------------------
(* Helpers on sequences and numbers.                                         *)

Min(a, b) == IF a < b THEN a ELSE b
Max(a, b) == IF a > b THEN a ELSE b
Abs(a) == IF a < 0 THEN -a ELSE a

RECURSIVE Sum(_)
Sum(s) == IF s = <<>> THEN 0 ELSE Head(s) + Sum(Tail(s))

\* Array.prototype.slice(-k)
SliceLast(s, k) == IF Len(s) <= k THEN s ELSE SubSeq(s, Len(s) - k + 1, Len(s))

\* Math.round of a non-negative value held in hundredths
Round(x) == (x + 50) \div 100

-----------------------------------------------------------------------------
(* SignalProcessor (src/services/signalProcessing.ts).  The methods are      *)
(* operators from a processor value to the processor value they leave.       *)

\* the fields of a freshly constructed processor
NewProcessor ==
    [buffer |-> <<>>, timestamps |-> <<>>,
     sessionMetrics |-> [bpm |-> <<>>, hrv |-> <<>>, stress |-> <<>>],
     lastBpm |-> 0]

\* reset that keeps the metrics of the session
resetKeepsSession(p) ==
    [p EXCEPT !.buffer = <<>>, !.timestamps = <<>>, !.lastBpm = 0]

\* reset that forgets the smoothing memory
resetKeepsLastBpm(p) ==
    [p EXCEPT !.buffer = <<>>,
              !.timestamps = <<>>,
              !.sessionMetrics = [bpm |-> <<>>, hrv |-> <<>>, stress |-> <<>>]]

reset(p) ==
    [p EXCEPT !.buffer = <<>>,
              !.timestamps = <<>>,
              !.sessionMetrics = [bpm |-> <<>>, hrv |-> <<>>, stress |-> <<>>],
              !.lastBpm = 0]

\* Array.prototype.pop in the place of shift: drops the last element
popLast(s) == IF s = <<>> THEN s ELSE SubSeq(s, 1, Len(s) - 1)

\* Array.prototype.shift: drops the first element
shift(s) == IF s = <<>> THEN s ELSE Tail(s)

\* addSample that evicts from the buffer alone
addSampleBufferOnly(p, rgb, timestamp) ==
    LET signal == rgb.g - rgb.r
        pushedB == Append(p.buffer, signal)
        pushedT == Append(p.timestamps, timestamp)
    IN  IF Len(pushedB) > BUFFER_SIZE
        THEN [p EXCEPT !.buffer = shift(pushedB), !.timestamps = pushedT]
        ELSE [p EXCEPT !.buffer = pushedB, !.timestamps = pushedT]

addSample(p, rgb, timestamp) ==
    LET signal == rgb.g - rgb.r
        pushedB == Append(p.buffer, signal)
        pushedT == Append(p.timestamps, timestamp)
    IN  IF Len(pushedB) > BUFFER_SIZE
        THEN [p EXCEPT !.buffer = shift(pushedB), !.timestamps = shift(pushedT)]
        ELSE [p EXCEPT !.buffer = pushedB, !.timestamps = pushedT]

getRawSignal(p) == p.buffer

\* applyFilter: mean removal, then a centred moving average clamped at the
\* edges.  Values come out in hundredths.
applyFilter(data) ==
    IF Len(data) < 2 THEN [i \in 1..Len(data) |-> 100 * data[i]]
    ELSE
        LET n == Len(data)
            avg == (100 * Sum(data)) \div n
            detrended == [i \in 1..n |-> 100 * data[i] - avg]
            lo(i) == Max(1, i - SMOOTH_WIN)
            hi(i) == Min(n, i + SMOOTH_WIN)
        IN  [i \in 1..n |-> Sum(SubSeq(detrended, lo(i), hi(i))) \div (hi(i) - lo(i) + 1)]

processBuffer(p) ==
    IF Len(p.buffer) < MIN_FILTER THEN <<>> ELSE applyFilter(p.buffer)

\* What lines 92-168 of calculateMetrics derive from the window apart from the
\* jump rejection: the BPM of the dominant bin, the RMSSD of the peak
\* intervals and the SNR.  The FFT of the doubles is not computed here: any
\* outcome of RawBpms x Rmssds x Snrs may come out of a window, except for a
\* window of equal values, whose filtered signal and spectrum are all zero
\* (no bin exceeds maxMag = 0, no peak is positive, maxMag / 1 = 0).
RawBpms == {4500, 7200, 18000}
Rmssds == {0, 4000}
Snrs == {130, 140}

IsFlat(data) == \A i \in 1..Len(data) : data[i] = data[1]

WindowAnalyses(p) ==
    IF IsFlat(p.buffer)
    THEN {[bpm |-> 0, rmssd |-> 0, snr |-> 0]}
    ELSE [bpm : RawBpms, rmssd : Rmssds, snr : Snrs]

NoEstimate == [bpm |-> 0, rmssd |-> 0, snr |-> 0]

\* the jump rejection from a difference of JUMP on
jumpRejectAtLeast(lastBpm, rawBpm) ==
    IF lastBpm > 0 /\ Abs(rawBpm - lastBpm) >= JUMP
    THEN (lastBpm * 8 + rawBpm * 2) \div 10
    ELSE rawBpm

\* 5. Post-processing: jump rejection against lastBpm
jumpReject(lastBpm, rawBpm) ==
    IF lastBpm > 0 /\ Abs(rawBpm - lastBpm) > JUMP
    THEN (lastBpm * 8 + rawBpm * 2) \div 10
    ELSE rawBpm

\* the stress score without the clamps
stressOfUnclamped(rawBpm, rmssd) ==
    ((((rawBpm - 5000) * 3) \div 2) * 4 + (10000 - rmssd) * 6) \div 10

\* the stress score pushed with an accepted window
stressOf(rawBpm, rmssd) ==
    LET stressBpm == Min(10000, Max(0, ((rawBpm - 5000) * 3) \div 2))
        stressHrv == Min(10000, Max(0, 10000 - rmssd))
    IN  (stressBpm * 4 + stressHrv * 6) \div 10

\* the gate without the quality tests
acceptsAlways(addToSession, snr, rawBpm) == addToSession

\* the gate with inclusive bounds
acceptsInclusive(addToSession, snr, rawBpm) ==
    addToSession /\ snr >= SNR_ACCEPT /\ rawBpm >= BPM_LOW /\ rawBpm <= BPM_HIGH

\* 8. Session accumulation: the gate
accepts(addToSession, snr, rawBpm) ==
    addToSession /\ snr > SNR_ACCEPT /\ rawBpm > BPM_LOW /\ rawBpm < BPM_HIGH

\* 8. Session accumulation: what an accepted window pushes
accumulate(m, rawBpm, rmssd) ==
    [bpm |-> Append(m.bpm, rawBpm),
     hrv |-> IF rmssd > 0 THEN Append(m.hrv, rmssd) ELSE m.hrv,
     stress |-> Append(m.stress, stressOf(rawBpm, rmssd))]

\* the guard, one sample short
notEnoughDataOffByOne(n) == n < MIN_METRICS - 1

\* the guard of calculateMetrics: n < 60, "need at least 2 seconds"
notEnoughData(n) == n < MIN_METRICS

\* 6. HRV (RMSSD) from the peaks findPeaks returns (positions in recentData)
\* and the milliseconds per sample, 1000 / realFps.  Intervals are in ms.
diffMs(peaks, i, msPerSample) == (peaks[i] - peaks[i - 1]) * msPerSample

\* the positions i of peaks whose delta the loop adds to sumSq
hrvTerms(peaks, msPerSample) ==
    IF Len(peaks) > 2
    THEN {i \in 2..Len(peaks) :
            /\ diffMs(peaks, i, msPerSample) > RR_MIN
            /\ diffMs(peaks, i, msPerSample) < RR_MAX
            /\ i > 2}
    ELSE {}

\* Math.sqrt, rounded down to a whole number
Sqrt(x) == CHOOSE r \in 0..x : r * r <= x /\ (r + 1) * (r + 1) > x

\* the rmssd of the window, in whole ms
rmssdOf(peaks, msPerSample) ==
    LET terms == hrvTerms(peaks, msPerSample)
        delta(i) == diffMs(peaks, i, msPerSample) - diffMs(peaks, i - 1, msPerSample)
        squares == [i \in 1..Len(peaks) |-> IF i \in terms THEN delta(i) * delta(i) ELSE 0]
        count == Cardinality(terms)
    IN  IF count > 0 THEN Sqrt(Sum(squares) \div count) ELSE 0

\* calculateMetrics(addToSession) on processor p when the window analysis
\* gives w: the processor it leaves and the value it returns
calculateMetrics(p, addToSession, w) ==
    LET n == Len(p.buffer) IN
    IF notEnoughData(n) THEN [p |-> p, ret |-> NoEstimate]
    ELSE IF p.timestamps[n] - p.timestamps[1] = 0 THEN [p |-> p, ret |-> NoEstimate]
    ELSE
        LET rawBpm == jumpReject(p.lastBpm, w.bpm)
            p1 == [p EXCEPT !.lastBpm = rawBpm]
            p2 == IF accepts(addToSession, w.snr, rawBpm)
                  THEN [p1 EXCEPT !.sessionMetrics = accumulate(p.sessionMetrics, rawBpm, w.rmssd)]
                  ELSE p1
        IN  [p |-> p2, ret |-> [bpm |-> rawBpm, rmssd |-> w.rmssd, snr |-> w.snr]]

\* the mean in the place of the median
getMean(arr) == IF Len(arr) = 0 THEN 0 ELSE Sum(arr) \div Len(arr)

getMedian(arr) ==
    IF Len(arr) = 0 THEN 0
    ELSE
        LET sorted == SortSeq(arr, LAMBDA a, b : a < b)
            mid == Len(sorted) \div 2
        IN  IF Len(sorted) % 2 # 0
            THEN sorted[mid + 1]
            ELSE (sorted[mid] + sorted[mid + 1]) \div 2

\* the confidence from CONFIDENCE_MIN accepted windows on
highConfidenceAtLeast(count) == IF count >= CONFIDENCE_MIN THEN 1 ELSE 0

\* the confidence of the report: bpm.length > 5 ? 1 : 0
highConfidence(count) == IF count > CONFIDENCE_MIN THEN 1 ELSE 0

getFinalReport(p) ==
    LET avgBpm == getMedian(p.sessionMetrics.bpm)
        avgHrv == getMedian(p.sessionMetrics.hrv)
        avgStress == getMedian(p.sessionMetrics.stress)
        respRate == IF avgBpm > 0 THEN avgBpm \div 4 ELSE 1500
    IN  [bpm |-> Round(avgBpm),
         hrv |-> Round(avgHrv),
         stress |-> Round(avgStress),
         respiration |-> Round(respRate),
         confidence |-> highConfidence(Len(p.sessionMetrics.bpm))]

-----------------------------------------------------------------------------
(* The alternative SignalProcessor (src/unnamed/part_002): the same fields,  *)
(* samples added as numbers, and a calculateMetrics with a sanity fallback   *)
(* and heavier smoothing in the place of the jump rejection.                 *)

\* the bpm that is not a number: 0 * Infinity
NaN == -1

\* a ? a : b on numbers: 0 and NaN are falsy
OrElse(a, b) == IF a = 0 \/ a = NaN THEN b ELSE a

addSampleAlt(p, value, timestamp) ==
    LET pushedB == Append(p.buffer, value)
        pushedT == Append(p.timestamps, timestamp)
    IN  IF Len(pushedB) > BUFFER_SIZE
        THEN [p EXCEPT !.buffer = shift(pushedB), !.timestamps = shift(pushedT)]
        ELSE [p EXCEPT !.buffer = pushedB, !.timestamps = pushedT]

\* the DC tracker of applyFilter before sample i is read, in hundredths:
\* data[0] at first, then prev * 0.98 + data[i] * 0.02 after every sample
RECURSIVE dcBefore(_, _)
dcBefore(data, i) ==
    IF i = 1 THEN 100 * data[1]
    ELSE (dcBefore(data, i - 1) * 98 + 100 * data[i - 1] * 2) \div 100

\* applyFilter of the alternative processor: every sample less the DC
\* tracker, then a centred moving average clamped at the edges.  It has no
\* test on the length.  Values come out in hundredths.
applyFilterAlt(data) ==
    LET n == Len(data)
        detrended == [i \in 1..n |-> 100 * data[i] - dcBefore(data, i)]
        lo(i) == Max(1, i - ALT_SMOOTH_WIN)
        hi(i) == Min(n, i + ALT_SMOOTH_WIN)
    IN  [i \in 1..n |-> Sum(SubSeq(detrended, lo(i), hi(i))) \div (hi(i) - lo(i) + 1)]

processBufferAlt(p) ==
    IF Len(p.buffer) < MIN_FILTER THEN <<>> ELSE applyFilterAlt(p.buffer)

stressOfAlt(rawBpm, rmssd) ==
    Max(0, Min(10000, rawBpm \div 3 + (10000 - Min(10000, rmssd)) \div 2))

\* calculateMetrics(addToSession) of the alternative processor when the
\* window analysis gives w.  It does not test durationSec: on a store whose
\* first and last timestamps are equal realFps and binSize are Infinity,
\* minBin = maxBin = maxIndex = 0, and dominantFreq = 0 * Infinity is NaN; no
\* peak interval exceeds 300 ms then.
calculateMetricsAlt(p, addToSession, w) ==
    LET n == Len(p.buffer) IN
    IF n < ALT_MIN_METRICS THEN [p |-> p, ret |-> NoEstimate]
    ELSE
        LET zeroDuration == p.timestamps[n] - p.timestamps[1] = 0
            found == IF zeroDuration THEN NaN ELSE w.bpm
            rawBpm == IF found # NaN /\ (found < ALT_BPM_MIN \/ found > ALT_BPM_MAX)
                      THEN OrElse(p.lastBpm, ALT_BPM_DEFAULT)
                      ELSE found
            smoothedBpm == IF p.lastBpm = 0 THEN rawBpm
                           ELSE IF p.lastBpm = NaN \/ rawBpm = NaN THEN NaN
                           ELSE (p.lastBpm * 7 + rawBpm * 3) \div 10
            rmssd == IF zeroDuration THEN 0 ELSE w.rmssd
            p1 == [p EXCEPT !.lastBpm = smoothedBpm]
            m == p.sessionMetrics
            p2 == IF /\ addToSession
                     /\ w.snr > ALT_SNR_ACCEPT
                     /\ rawBpm # NaN
                     /\ rawBpm > BPM_LOW
                     /\ rawBpm < BPM_HIGH
                  THEN [p1 EXCEPT !.sessionMetrics =
                           [bpm |-> Append(m.bpm, rawBpm),
                            hrv |-> IF rmssd > 0 THEN Append(m.hrv, rmssd) ELSE m.hrv,
                            stress |-> Append(m.stress, stressOfAlt(rawBpm, rmssd))]]
                  ELSE p1
        IN  [p |-> p2, ret |-> [bpm |-> smoothedBpm, rmssd |-> rmssd, snr |-> w.snr]]

\* getFinalReport of the alternative processor: a field that rounds to 0 is
\* replaced by a fixed value; the confidence is 1 or 0.5, in hundredths
getFinalReportAlt(p) ==
    LET avgBpm == getMedian(p.sessionMetrics.bpm)
        avgHrv == getMedian(p.sessionMetrics.hrv)
        avgStress == getMedian(p.sessionMetrics.stress)
        respRate == IF avgBpm > 0 THEN (avgBpm * 10) \div 42 ELSE 1400
    IN  [bpm |-> OrElse(Round(avgBpm), ALT_BPM_REPORT),
         hrv |-> OrElse(Round(avgHrv), ALT_HRV_REPORT),
         stress |-> OrElse(Round(avgStress), ALT_STRESS_REPORT),
         respiration |-> OrElse(Round(respRate), ALT_RESPIRATION_REPORT),
         confidence |-> IF Len(p.sessionMetrics.bpm) > ALT_CONFIDENCE_MIN THEN 100 ELSE 50]

-----------------------------------------------------------------------------
(* App (src/App.tsx).                                                        *)

\* the RGB averages a frame may deliver: nothing lit, and a skin tone
Frames == { [r |-> 0, g |-> 0, b |-> 0], [r |-> 150, g |-> 110, b |-> 90] }

\* what processFrame hands over: no skin pixel in the region (black, no
\* face), the skin average with a face, and the skin average of a region in
\* which too few pixels are skin (no face)
FrameResults ==
    { [rgb |-> [r |-> 0, g |-> 0, b |-> 0], hasFace |-> FALSE],
      [rgb |-> [r |-> 150, g |-> 110, b |-> 90], hasFace |-> TRUE],
      [rgb |-> [r |-> 150, g |-> 110, b |-> 90], hasFace |-> FALSE] }

\* the numbers the capture layer reduces a frame to
Values == {0, 110}

\* milliseconds that may pass between two reads of Date.now()
Delays == {0, 1}

\* between two frames of the running App at least a millisecond passes
AppDelays == {1}

\* no function was applied on its own
NoCall == [fn |-> "none"]

InitialBiomarkers ==
    [bpm |-> 0, hrv |-> 0, stress |-> 0, spo2 |-> 98, respirationRate |-> 0, confidence |-> 0]

Init ==
    /\ processor = NewProcessor
    /\ appState = IDLE
    /\ signalData = <<>>
    /\ timeLeft = SCAN_DURATION
    /\ lightingCondition = "good"
    /\ biomarkers = InitialBiomarkers
    /\ frameCountRef = 0
    /\ frameLoopState = IDLE
    /\ interval = FALSE
    /\ now = 0
    /\ added = <<>>
    /\ session = 0
    /\ ticks = 0
    /\ reports = 0
    /\ metricsCalls = 0
    /\ lastOp = "init"
    /\ lastRet = NoEstimate
    /\ faceless = TRUE
    /\ warmupRef = 0
    /\ args = NoCall
    /\ result = NoCall

\* finishScan: the state it sets
finishScan ==
    LET finalReport == getFinalReport(processor) IN
    /\ appState' = REPORT
    /\ biomarkers' = [biomarkers EXCEPT !.bpm = finalReport.bpm,
                                        !.hrv = finalReport.hrv,
                                        !.stress = finalReport.stress,
                                        !.respirationRate = finalReport.respiration,
                                        !.confidence = finalReport.confidence]
    /\ reports' = reports + 1

\* the updater's test, one tick late
expiredAtZero(prev) == prev <= 0

\* the updater's test: prev <= 1
expired(prev) == prev <= 1

\* the callback of the interval: setTimeLeft's updater
TimerTick ==
    /\ interval
    /\ reports < MaxReports
    /\ IF expired(timeLeft)
       THEN /\ finishScan
            /\ timeLeft' = 0
       ELSE /\ timeLeft' = timeLeft - 1
            /\ UNCHANGED <<appState, biomarkers, reports>>
    /\ ticks' = ticks + 1
    /\ lastOp' = "tick"
    /\ lastRet' = NoEstimate
    /\ UNCHANGED <<processor, signalData, lightingCondition, frameCountRef,
                   frameLoopState, interval, now, added, session, metricsCalls,
                   faceless, warmupRef, pureVars>>

\* the chart update of handleFrameProcessed, every CHART_EVERY-th frame
chartAfter(p, count, timestamp) ==
    IF count % CHART_EVERY = 0 /\ Len(processBuffer(p)) > 0
    THEN LET filtered == processBuffer(p)
             latestVal == filtered[Len(filtered)]
         IN  SliceLast(Append(signalData, [timestamp |-> timestamp, value |-> latestVal]),
                       CHART_POINTS)
    ELSE signalData

\* the live-metrics test without the phase
runsMetricsAnyPhase(state, count) == count % METRICS_EVERY = 0

\* the state logic's test for a live-metrics update: Measuring, every
\* METRICS_EVERY-th frame
runsMetrics(state, count) == state = MEASURING /\ count % METRICS_EVERY = 0

\* the end-of-calibration test against the capacity of the store
calibratedAtCapacity(state, p) == state = CALIBRATING /\ Len(getRawSignal(p)) > BUFFER_SIZE

\* the end-of-calibration test without the phase
calibratedAnyPhase(state, p) == Len(getRawSignal(p)) > CALIBRATION_SAMPLES

\* the state logic's test for the end of calibration
calibrated(state, p) == state = CALIBRATING /\ Len(getRawSignal(p)) > CALIBRATION_SAMPLES

\* handleFrameProcessed(rgb), as memoized by the render whose appState was
\* frameLoopState; delay is the time since the previous Date.now()
handleFrameProcessed(rgb, delay) ==
    IF frameLoopState = IDLE \/ frameLoopState = REPORT
    THEN /\ lastOp' = "frameIgnored"
         /\ lastRet' = NoEstimate
         /\ UNCHANGED <<processor, appVars, now, added, metricsCalls, pureVars>>
    ELSE
        LET t == now + delay
            p1 == addSample(processor, rgb, t)
            count == frameCountRef + 1
        IN  /\ lightingCondition' = IF rgb.g < LIGHT_MIN \/ rgb.g > LIGHT_MAX THEN "bad" ELSE "good"
            /\ now' = t
            /\ added' = Append(added, <<rgb.g - rgb.r, t>>)
            /\ frameCountRef' = count
            /\ signalData' = chartAfter(p1, count, t)
            /\ lastOp' = "frame"
            /\ UNCHANGED <<frameLoopState, interval, session, reports, pureVars>>
            /\ IF calibrated(frameLoopState, p1)
               THEN /\ appState' = MEASURING
                    /\ timeLeft' = SCAN_DURATION
                    /\ ticks' = IF appState = MEASURING THEN ticks ELSE 0
               ELSE UNCHANGED <<appState, timeLeft, ticks>>
            /\ IF runsMetrics(frameLoopState, count)
               THEN \E w \in WindowAnalyses(p1) :
                        LET r == calculateMetrics(p1, TRUE, w) IN
                        /\ processor' = r.p
                        /\ metricsCalls' = metricsCalls + 1
                        /\ lastRet' = r.ret
                        /\ biomarkers' =
                              IF r.ret.snr > SNR_LIVE /\ r.ret.bpm > BPM_LIVE
                              THEN [biomarkers EXCEPT !.bpm = Round(r.ret.bpm),
                                                      !.hrv = Round(r.ret.rmssd),
                                                      !.confidence = 1]
                              ELSE biomarkers
               ELSE /\ processor' = p1
                    /\ lastRet' = NoEstimate
                    /\ UNCHANGED <<biomarkers, metricsCalls>>

\* processFrame of the VideoFeed on one animation frame: it hands one of
\* FrameResults to onFrameProcessed; the handler is given the colour and
\* nothing reads hasFace.  At most limit frames are stored over a run.
processFrame(limit) ==
    \E frame \in FrameResults, delay \in AppDelays :
        /\ frameLoopState \in {IDLE, REPORT} \/ frameCountRef < limit
        /\ handleFrameProcessed(frame.rgb, delay)
        /\ faceless' = IF frameLoopState \in {IDLE, REPORT}
                       THEN faceless
                       ELSE faceless /\ ~frame.hasFace
        /\ UNCHANGED warmupRef

Frame == processFrame(MaxFrames)

\* the passive effects of the last render: the timer effect of App (its
\* cleanup clears the interval, its body sets one when Measuring) and the
\* frame-loop effect of VideoFeed, which from now on calls the new handler
RunEffects ==
    /\ frameLoopState # appState \/ interval # (appState = MEASURING)
    /\ frameLoopState' = appState
    /\ interval' = (appState = MEASURING)
    /\ lastOp' = "effects"
    /\ lastRet' = NoEstimate
    /\ UNCHANGED <<processor, appState, signalData, timeLeft, lightingCondition,
                   biomarkers, frameCountRef, now, added, session, ticks, reports,
                   metricsCalls, faceless, warmupRef, pureVars>>

\* the start button, rendered while Idle
startMonitoring ==
    /\ appState = IDLE
    /\ session < MaxSessions
    /\ processor' = reset(processor)
    /\ appState' = CALIBRATING
    /\ signalData' = <<>>
    /\ timeLeft' = SCAN_DURATION
    /\ biomarkers' = [bpm |-> 0, hrv |-> 0, stress |-> 0, spo2 |-> 0,
                      respirationRate |-> 0, confidence |-> 0]
    /\ frameLoopState' = CALIBRATING
    /\ interval' = FALSE
    /\ added' = <<>>
    /\ metricsCalls' = 0
    /\ session' = session + 1
    /\ reports' = 0
    /\ lastOp' = "start"
    /\ lastRet' = NoEstimate
    /\ faceless' = TRUE
    /\ UNCHANGED <<lightingCondition, frameCountRef, now, ticks, warmupRef, pureVars>>

\* the "Scan Again" button, rendered in the report view
resetApp ==
    /\ appState = REPORT
    /\ appState' = IDLE
    /\ signalData' = <<>>
    /\ lightingCondition' = "good"
    /\ frameLoopState' = IDLE
    /\ interval' = FALSE
    /\ lastOp' = "resetApp"
    /\ lastRet' = NoEstimate
    /\ UNCHANGED <<processor, timeLeft, biomarkers, frameCountRef, now, added,
                   session, ticks, reports, metricsCalls, faceless, warmupRef, pureVars>>

Next ==
    \/ Frame
    \/ TimerTick
    \/ RunEffects
    \/ startMonitoring
    \/ resetApp

Spec == Init /\ [][Next]_vars

-----------------------------------------------------------------------------
(* The start of the first scan, followed for more frames: the same handlers, *)
(* one session, the first MaxScanTicks ticks of the timer.                   *)

ScanFrame == processFrame(MaxScanFrames)

ScanTick == ticks < MaxScanTicks /\ TimerTick

ScanStart == session = 0 /\ startMonitoring

NextScan ==
    \/ ScanFrame
    \/ ScanTick
    \/ RunEffects
    \/ ScanStart

SpecScan == Init /\ [][NextScan]_vars

-----------------------------------------------------------------------------
(* One session followed to its end.  The interval fires as long as it is     *)
(* live and React runs the effects of a render: weak fairness of the timer   *)
(* tick and of the effects.  Nothing is assumed of the camera: the frame     *)
(* loop may stop delivering at any time.                                     *)

LiveFrame == processFrame(MaxLiveFrames)

NextLive ==
    \/ LiveFrame
    \/ TimerTick
    \/ RunEffects
    \/ ScanStart

SpecLive ==
    /\ Init
    /\ [][NextLive]_vars
    /\ WF_vars(TimerTick)
    /\ WF_vars(RunEffects)

\* the frame loop keeps delivering: weak fairness of the frame that is
\* stored (it is the only step that counts a frame; it can be taken while
\* the handler in use captured Calibrating or Measuring)
FairFrames ==
    \/ []<>(frameLoopState \notin {CALIBRATING, MEASURING} \/ frameCountRef >= MaxLiveFrames)
    \/ []<><<frameCountRef' = frameCountRef + 1>>_vars

-----------------------------------------------------------------------------
(* The App of src/unnamed/part_005 on the alternative processor: the frame   *)
(* handler is given a green average; the start of the first scan.            *)

finishScanAlt ==
    LET finalReport == getFinalReportAlt(processor) IN
    /\ appState' = REPORT
    /\ biomarkers' = [biomarkers EXCEPT !.bpm = finalReport.bpm,
                                        !.hrv = finalReport.hrv,
                                        !.stress = finalReport.stress,
                                        !.respirationRate = finalReport.respiration,
                                        !.confidence = finalReport.confidence]
    /\ reports' = reports + 1

AltTimerTick ==
    /\ interval
    /\ ticks < MaxScanTicks
    /\ IF expired(timeLeft)
       THEN /\ finishScanAlt
            /\ timeLeft' = 0
       ELSE /\ timeLeft' = timeLeft - 1
            /\ UNCHANGED <<appState, biomarkers, reports>>
    /\ ticks' = ticks + 1
    /\ lastOp' = "tick"
    /\ lastRet' = NoEstimate
    /\ UNCHANGED <<processor, signalData, lightingCondition, frameCountRef,
                   frameLoopState, interval, now, added, session, metricsCalls,
                   faceless, warmupRef, pureVars>>

chartAfterAlt(p, count, timestamp) ==
    IF count % ALT_CHART_EVERY = 0 /\ Len(processBufferAlt(p)) > 0
    THEN LET filtered == processBufferAlt(p)
             latestVal == filtered[Len(filtered)]
         IN  SliceLast(Append(signalData, [timestamp |-> timestamp, value |-> latestVal]),
                       CHART_POINTS)
    ELSE signalData

\* handleFrameProcessed(greenAvg), as memoized by the render whose appState
\* was frameLoopState
handleFrameProcessedAlt(greenAvg, delay) ==
    IF frameLoopState = IDLE \/ frameLoopState = REPORT
    THEN /\ lastOp' = "frameIgnored"
         /\ lastRet' = NoEstimate
         /\ UNCHANGED <<processor, appVars, now, added, metricsCalls, pureVars>>
    ELSE
        LET t == now + delay
            p1 == addSampleAlt(processor, greenAvg, t)
            count == frameCountRef + 1
        IN  /\ lightingCondition' = IF greenAvg < ALT_LIGHT_MIN \/ greenAvg > ALT_LIGHT_MAX
                                    THEN "bad" ELSE "good"
            /\ now' = t
            /\ added' = Append(added, <<greenAvg, t>>)
            /\ frameCountRef' = count
            /\ signalData' = chartAfterAlt(p1, count, t)
            /\ lastOp' = "frame"
            /\ UNCHANGED <<frameLoopState, interval, session, reports, pureVars>>
            /\ IF frameLoopState = CALIBRATING /\ Len(getRawSignal(p1)) > ALT_CALIBRATION_SAMPLES
               THEN /\ appState' = MEASURING
                    /\ timeLeft' = SCAN_DURATION
                    /\ ticks' = IF appState = MEASURING THEN ticks ELSE 0
               ELSE UNCHANGED <<appState, timeLeft, ticks>>
            /\ IF frameLoopState = MEASURING /\ count % ALT_METRICS_EVERY = 0
               THEN \E w \in WindowAnalyses(p1) :
                        LET r == calculateMetricsAlt(p1, TRUE, w) IN
                        /\ processor' = r.p
                        /\ metricsCalls' = metricsCalls + 1
                        /\ lastRet' = r.ret
                        /\ biomarkers' =
                              IF r.ret.snr > ALT_SNR_LIVE
                              THEN [biomarkers EXCEPT !.bpm = Round(r.ret.bpm),
                                                      !.hrv = Round(r.ret.rmssd),
                                                      !.confidence = 1]
                              ELSE biomarkers
               ELSE /\ processor' = p1
                    /\ lastRet' = NoEstimate
                    /\ UNCHANGED <<biomarkers, metricsCalls>>

AltFrame ==
    \E greenAvg \in Values, delay \in AppDelays :
        /\ frameLoopState \in {IDLE, REPORT} \/ frameCountRef < MaxAltFrames
        /\ handleFrameProcessedAlt(greenAvg, delay)
        /\ UNCHANGED <<faceless, warmupRef>>

NextAltApp ==
    \/ AltFrame
    \/ AltTimerTick
    \/ RunEffects
    \/ ScanStart

SpecAltApp == Init /\ [][NextAltApp]_vars

-----------------------------------------------------------------------------
(* src/App.tsx under src/components/VideoFeed.tsx as they are wired (App.tsx *)
(* line 193): processFrame calls onFrameProcessed with a FrameResult         *)
(* {rgb, hasFace}, and handleFrameProcessed reads .g and .r of what it is    *)
(* given.                                                                    *)

\* the value of a property an object does not have
Undefined == -2

\* obj.name
field(obj, name) == IF name \in DOMAIN obj THEN obj[name] ELSE Undefined

\* a - b on what two property reads gave: undefined - undefined is NaN
minus(a, b) == IF a = Undefined \/ b = Undefined THEN NaN ELSE a - b

\* addSample on an argument of any shape: the signal is arg.g - arg.r
addSampleOf(p, arg, timestamp) ==
    LET signal == minus(field(arg, "g"), field(arg, "r"))
        pushedB == Append(p.buffer, signal)
        pushedT == Append(p.timestamps, timestamp)
    IN  IF Len(pushedB) > BUFFER_SIZE
        THEN [p EXCEPT !.buffer = shift(pushedB), !.timestamps = shift(pushedT)]
        ELSE [p EXCEPT !.buffer = pushedB, !.timestamps = pushedT]

\* applyFilter on a buffer that may hold NaN: the mean and with it every
\* output is NaN then
processBufferOf(p) ==
    IF Len(p.buffer) < MIN_FILTER THEN <<>>
    ELSE IF \E i \in 1..Len(p.buffer) : p.buffer[i] = NaN
    THEN [i \in 1..Len(p.buffer) |-> NaN]
    ELSE applyFilter(p.buffer)

\* the window analysis of a buffer that may hold NaN: every magnitude of the
\* spectrum is NaN, no bin exceeds maxMag = 0, no sample is a peak, and the
\* snr is 0 / (NaN || 1)
WindowAnalysesOf(p) ==
    IF \E i \in 1..Len(p.buffer) : p.buffer[i] = NaN
    THEN {NoEstimate}
    ELSE WindowAnalyses(p)

\* handleFrameProcessed called with arg, as memoized by the render whose
\* appState was frameLoopState
handleFrameProcessedOf(arg, delay) ==
    IF frameLoopState = IDLE \/ frameLoopState = REPORT
    THEN /\ lastOp' = "frameIgnored"
         /\ lastRet' = NoEstimate
         /\ UNCHANGED <<processor, appVars, now, added, metricsCalls>>
    ELSE
        LET t == now + delay
            g == field(arg, "g")
            p1 == addSampleOf(processor, arg, t)
            count == frameCountRef + 1
            filtered == processBufferOf(p1)
        IN  /\ lightingCondition' = IF g # Undefined /\ (g < LIGHT_MIN \/ g > LIGHT_MAX)
                                    THEN "bad" ELSE "good"
            /\ now' = t
            /\ added' = Append(added, <<p1.buffer[Len(p1.buffer)], t>>)
            /\ frameCountRef' = count
            /\ signalData' =
                  IF count % CHART_EVERY = 0 /\ Len(filtered) > 0
                  THEN SliceLast(Append(signalData, [timestamp |-> t,
                                                     value |-> filtered[Len(filtered)]]),
                                 CHART_POINTS)
                  ELSE signalData
            /\ lastOp' = "frame"
            /\ UNCHANGED <<frameLoopState, interval, session, reports>>
            /\ IF calibrated(frameLoopState, p1)
               THEN /\ appState' = MEASURING
                    /\ timeLeft' = SCAN_DURATION
                    /\ ticks' = IF appState = MEASURING THEN ticks ELSE 0
               ELSE UNCHANGED <<appState, timeLeft, ticks>>
            /\ IF runsMetrics(frameLoopState, count)
               THEN \E w \in WindowAnalysesOf(p1) :
                        LET r == calculateMetrics(p1, TRUE, w) IN
                        /\ processor' = r.p
                        /\ metricsCalls' = metricsCalls + 1
                        /\ lastRet' = r.ret
                        /\ biomarkers' =
                              IF r.ret.snr > SNR_LIVE /\ r.ret.bpm > BPM_LIVE
                              THEN [biomarkers EXCEPT !.bpm = Round(r.ret.bpm),
                                                      !.hrv = Round(r.ret.rmssd),
                                                      !.confidence = 1]
                              ELSE biomarkers
               ELSE /\ processor' = p1
                    /\ lastRet' = NoEstimate
                    /\ UNCHANGED <<biomarkers, metricsCalls>>

\* processFrame of src/components/VideoFeed.tsx: onFrameProcessed is called
\* with the FrameResult itself; args keeps what was handed over
WiredFrame ==
    \E frame \in FrameResults, delay \in AppDelays :
        /\ frameLoopState \in {IDLE, REPORT} \/ frameCountRef < MaxWiredFrames
        /\ handleFrameProcessedOf(frame, delay)
        /\ args' = [fn |-> "onFrameProcessed", result |-> frame]
        /\ faceless' = IF frameLoopState \in {IDLE, REPORT}
                       THEN faceless
                       ELSE faceless /\ ~frame.hasFace
        /\ UNCHANGED warmupRef
        /\ UNCHANGED result

NextWired ==
    \/ WiredFrame
    \/ ScanTick
    \/ RunEffects
    \/ ScanStart

SpecWired == Init /\ [][NextWired]_vars

-----------------------------------------------------------------------------
(* The App with a warmup counter (src/unnamed/part_000) on the alternative   *)
(* processor: the start of the first scan.  Its timer effect and finishScan  *)
(* are those of part_005, line for line.                                     *)

\* handleFrameProcessed(greenAvg), as memoized by the render whose appState
\* was frameLoopState
handleFrameProcessedWarmup(greenAvg, delay) ==
    IF frameLoopState = IDLE \/ frameLoopState = REPORT
    THEN /\ lastOp' = "frameIgnored"
         /\ lastRet' = NoEstimate
         /\ UNCHANGED <<processor, appVars, now, added, metricsCalls, warmupRef, pureVars>>
    ELSE
        LET t == now + delay
            p1 == addSampleAlt(processor, greenAvg, t)
            count == frameCountRef + 1
            filtered == processBufferAlt(p1)
            onCadence == count % WARMUP_EVERY = 0
        IN  /\ now' = t
            /\ added' = Append(added, <<greenAvg, t>>)
            /\ frameCountRef' = count
            /\ signalData' =
                  IF count % ALT_CHART_EVERY = 0 /\ Len(filtered) > 0
                  THEN SliceLast(Append(signalData, [timestamp |-> t,
                                                     value |-> filtered[Len(filtered)]]),
                                 WARMUP_CHART_POINTS)
                  ELSE signalData
            /\ lastOp' = "frame"
            /\ UNCHANGED <<lightingCondition, frameLoopState, interval, session,
                           reports, pureVars>>
            /\ IF onCadence /\ frameLoopState = CALIBRATING
               THEN /\ warmupRef' = warmupRef + 1
                    /\ IF warmupRef + 1 > WARMUP_COUNT
                       THEN /\ appState' = MEASURING
                            /\ timeLeft' = SCAN_DURATION
                            /\ ticks' = IF appState = MEASURING THEN ticks ELSE 0
                       ELSE UNCHANGED <<appState, timeLeft, ticks>>
               ELSE UNCHANGED <<warmupRef, appState, timeLeft, ticks>>
            /\ IF onCadence /\ frameLoopState = MEASURING
               THEN \E w \in WindowAnalyses(p1) :
                        LET r == calculateMetricsAlt(p1, TRUE, w) IN
                        /\ processor' = r.p
                        /\ metricsCalls' = metricsCalls + 1
                        /\ lastRet' = r.ret
                        /\ biomarkers' =
                              IF r.ret.snr > ALT_SNR_LIVE
                              THEN [biomarkers EXCEPT !.bpm = Round(r.ret.bpm),
                                                      !.hrv = Round(r.ret.rmssd),
                                                      !.confidence = 1]
                              ELSE biomarkers
               ELSE /\ processor' = p1
                    /\ lastRet' = NoEstimate
                    /\ UNCHANGED <<biomarkers, metricsCalls>>

WarmupFrame ==
    \E greenAvg \in Values, delay \in AppDelays :
        /\ frameLoopState \in {IDLE, REPORT} \/ frameCountRef < MaxWarmupFrames
        /\ handleFrameProcessedWarmup(greenAvg, delay)
        /\ UNCHANGED faceless

\* the start button of part_000: the biomarkers are left as they are
startMonitoringWarmup ==
    /\ appState = IDLE
    /\ session = 0
    /\ processor' = reset(processor)
    /\ appState' = CALIBRATING
    /\ signalData' = <<>>
    /\ warmupRef' = 0
    /\ timeLeft' = SCAN_DURATION
    /\ frameLoopState' = CALIBRATING
    /\ interval' = FALSE
    /\ added' = <<>>
    /\ metricsCalls' = 0
    /\ session' = session + 1
    /\ reports' = 0
    /\ lastOp' = "start"
    /\ lastRet' = NoEstimate
    /\ faceless' = TRUE
    /\ UNCHANGED <<lightingCondition, biomarkers, frameCountRef, now, ticks, pureVars>>

NextWarmup ==
    \/ WarmupFrame
    \/ AltTimerTick
    \/ RunEffects
    \/ startMonitoringWarmup

SpecWarmup == Init /\ [][NextWarmup]_vars

-----------------------------------------------------------------------------
(* The processor alone, under every sequence of calls of its public methods. *)

\* addSample(rgb, Date.now()) while fewer than limit samples were added
\* since the last reset
addSampleCall(limit) ==
    \E rgb \in Frames, delay \in Delays :
        /\ Len(added) < limit
        /\ now + delay <= MaxClock
        /\ now' = now + delay
        /\ processor' = addSample(processor, rgb, now + delay)
        /\ added' = Append(added, <<rgb.g - rgb.r, now + delay>>)
        /\ lastOp' = "addSample"
        /\ lastRet' = NoEstimate
        /\ UNCHANGED <<appVars, metricsCalls, faceless, warmupRef, pureVars>>

callAddSample == addSampleCall(MaxAdds)

callAddWindowSample == addSampleCall(MaxWindowLen)

callReset ==
    /\ processor' = reset(processor)
    /\ added' = <<>>
    /\ metricsCalls' = 0
    /\ lastOp' = "reset"
    /\ lastRet' = NoEstimate
    /\ UNCHANGED <<appVars, now, faceless, warmupRef, pureVars>>

callCalculateMetrics ==
    \E addToSession \in BOOLEAN, w \in WindowAnalyses(processor) :
        LET r == calculateMetrics(processor, addToSession, w) IN
        /\ metricsCalls < MaxWindows
        /\ processor' = r.p
        /\ metricsCalls' = metricsCalls + 1
        /\ lastRet' = r.ret
        /\ lastOp' = IF addToSession THEN "calculateMetrics(true)" ELSE "calculateMetrics(false)"
        /\ UNCHANGED <<appVars, now, added, faceless, warmupRef, pureVars>>

\* the sample store: addSample and reset in any order
NextStore ==
    \/ callAddSample
    \/ callReset

SpecStore == Init /\ [][NextStore]_vars

\* the whole processor, on windows of at most MaxWindowLen samples
NextProc ==
    \/ callAddWindowSample
    \/ callReset
    \/ callCalculateMetrics

SpecProc == Init /\ [][NextProc]_vars

\* the whole processor with a store that fills up and evicts
NextEvict ==
    \/ callAddSample
    \/ callReset
    \/ callCalculateMetrics

SpecEvict == Init /\ [][NextEvict]_vars

\* the alternative processor: addSample(value, Date.now())
callAddSampleAlt ==
    \E value \in Values, delay \in Delays :
        /\ Len(added) < MaxWindowLen
        /\ now + delay <= MaxClock
        /\ now' = now + delay
        /\ processor' = addSampleAlt(processor, value, now + delay)
        /\ added' = Append(added, <<value, now + delay>>)
        /\ lastOp' = "addSample"
        /\ lastRet' = NoEstimate
        /\ UNCHANGED <<appVars, metricsCalls, faceless, warmupRef, pureVars>>

callCalculateMetricsAlt ==
    \E addToSession \in BOOLEAN, w \in WindowAnalyses(processor) :
        LET r == calculateMetricsAlt(processor, addToSession, w) IN
        /\ metricsCalls < MaxWindows
        /\ processor' = r.p
        /\ metricsCalls' = metricsCalls + 1
        /\ lastRet' = r.ret
        /\ lastOp' = IF addToSession THEN "calculateMetrics(true)" ELSE "calculateMetrics(false)"
        /\ UNCHANGED <<appVars, now, added, faceless, warmupRef, pureVars>>

NextAlt ==
    \/ callAddSampleAlt
    \/ callReset
    \/ callCalculateMetricsAlt

SpecAlt == Init /\ [][NextAlt]_vars

-----------------------------------------------------------------------------
(* reset() at any point of the processor's life, and once more right after.  *)

\* a second reset() right after a reset()
callResetAgain ==
    /\ lastOp = "reset"
    /\ processor' = reset(processor)
    /\ added' = <<>>
    /\ metricsCalls' = 0
    /\ lastOp' = "reset;reset"
    /\ lastRet' = NoEstimate
    /\ UNCHANGED <<appVars, now, faceless, warmupRef, pureVars>>

NextReset ==
    \/ callAddWindowSample
    \/ callReset
    \/ callResetAgain
    \/ callCalculateMetrics

SpecReset == Init /\ [][NextReset]_vars

-----------------------------------------------------------------------------
(* The processor on windows whose dominant bins lie 20 BPM and a little more *)
(* than 20 BPM apart; args keeps what the spectrum of the window gave.       *)

JumpBpms == {4999, 5000, 7000, 9000, 9001, 12000}

JumpAnalyses(p) ==
    IF IsFlat(p.buffer)
    THEN {[bpm |-> 0, rmssd |-> 0, snr |-> 0]}
    ELSE [bpm : JumpBpms, rmssd : {0}, snr : {140}]

callCalculateMetricsOnJump ==
    \E addToSession \in BOOLEAN, w \in JumpAnalyses(processor) :
        LET r == calculateMetrics(processor, addToSession, w) IN
        /\ metricsCalls < MaxWindows
        /\ processor' = r.p
        /\ metricsCalls' = metricsCalls + 1
        /\ lastRet' = r.ret
        /\ lastOp' = IF addToSession THEN "calculateMetrics(true)" ELSE "calculateMetrics(false)"
        /\ args' = [fn |-> "calculateMetrics", w |-> w]
        /\ UNCHANGED <<appVars, now, added, faceless, warmupRef, result>>

NextJump ==
    \/ callAddWindowSample
    \/ callReset
    \/ callCalculateMetricsOnJump

SpecJump == Init /\ [][NextJump]_vars

-----------------------------------------------------------------------------
(* getFinalReport on its own, at the end of a session in which up to         *)
(* MaxAccepted windows were accepted.                                        *)

\* bpm values of accepted windows: a cluster around 70, one far from it, and
\* a blend the jump rejection leaves (0.8 * 72 + 0.2 * 180)
BpmSamples == {6900, 7000, 7100, 17000, 9360}

\* the rmssd of those windows
RmssdSample == 4000

AcceptedRuns == UNION {[1..k -> BpmSamples] : k \in 0..MaxAccepted}

\* sessionMetrics after the windows of bpms were accepted
sessionOf(bpms) ==
    [bpm |-> bpms,
     hrv |-> [i \in 1..Len(bpms) |-> RmssdSample],
     stress |-> [i \in 1..Len(bpms) |-> stressOf(bpms[i], RmssdSample)]]

InitReport ==
    /\ \E bpms \in AcceptedRuns :
           processor = [NewProcessor EXCEPT !.sessionMetrics = sessionOf(bpms),
                                            !.lastBpm = IF bpms = <<>> THEN 0
                                                        ELSE bpms[Len(bpms)]]
    /\ appState = MEASURING
    /\ signalData = <<>>
    /\ timeLeft = 1
    /\ lightingCondition = "good"
    /\ biomarkers = InitialBiomarkers
    /\ frameCountRef = 0
    /\ frameLoopState = MEASURING
    /\ interval = TRUE
    /\ now = 0
    /\ added = <<>>
    /\ session = 1
    /\ ticks = SCAN_DURATION - 1
    /\ reports = 0
    /\ metricsCalls = 0
    /\ lastOp = "init"
    /\ lastRet = NoEstimate
    /\ faceless = TRUE
    /\ warmupRef = 0
    /\ args = NoCall
    /\ result = NoCall

callGetFinalReport ==
    /\ reports = 0
    /\ result' = [fn |-> "getFinalReport", ret |-> getFinalReport(processor)]
    /\ reports' = reports + 1
    /\ lastOp' = "getFinalReport"
    /\ UNCHANGED <<processor, appState, signalData, timeLeft, lightingCondition,
                   biomarkers, frameCountRef, frameLoopState, interval, now, added,
                   session, ticks, metricsCalls, lastRet, faceless, warmupRef, args>>

\* getFinalReport of the alternative processor on the same session
callGetFinalReportAlt ==
    /\ reports = 0
    /\ result' = [fn |-> "getFinalReportAlt", ret |-> getFinalReportAlt(processor)]
    /\ reports' = reports + 1
    /\ lastOp' = "getFinalReport"
    /\ UNCHANGED <<processor, appState, signalData, timeLeft, lightingCondition,
                   biomarkers, frameCountRef, frameLoopState, interval, now, added,
                   session, ticks, metricsCalls, lastRet, faceless, warmupRef, args>>

NextReport ==
    \/ callGetFinalReport
    \/ callGetFinalReportAlt

SpecReport == InitReport /\ [][NextReport]_vars

-----------------------------------------------------------------------------
(* The stress score on its own: the push of one accepted window, and the     *)
(* score of the alternative processor.                                       *)

\* the App as constructed, no function applied yet
IdleApp ==
    /\ appState = IDLE
    /\ signalData = <<>>
    /\ timeLeft = SCAN_DURATION
    /\ lightingCondition = "good"
    /\ biomarkers = InitialBiomarkers
    /\ frameCountRef = 0
    /\ frameLoopState = IDLE
    /\ interval = FALSE
    /\ now = 0
    /\ added = <<>>
    /\ session = 0
    /\ ticks = 0
    /\ reports = 0
    /\ metricsCalls = 0
    /\ lastOp = "init"
    /\ lastRet = NoEstimate
    /\ faceless = TRUE
    /\ warmupRef = 0
    /\ result = NoCall

\* bpm values the gate lets through (45 < bpm < 180), around the ends of the
\* ramp (bpm - 50) * 1.5, and rmssd values around the ends of 100 - rmssd
StressBpms == {4501, 5000, 5100, 7200, 9000, 11600, 11700, 15000, 17999}
StressRmssds == {0, 50, 2500, 5000, 9950, 10000, 10050, 30000}

InitStress ==
    /\ processor = NewProcessor
    /\ IdleApp
    /\ args \in {[fn |-> "stress", rawBpm |-> b, rmssd |-> r] :
                    b \in StressBpms, r \in StressRmssds}

appUnchanged ==
    UNCHANGED <<appState, signalData, timeLeft, lightingCondition, biomarkers,
                frameCountRef, frameLoopState, interval, now, added, session,
                ticks, reports, metricsCalls, lastRet, faceless, warmupRef, args>>

\* the body of the gate's if, on the window of args
callAccumulate ==
    /\ result = NoCall
    /\ processor' = [processor EXCEPT
                        !.sessionMetrics = accumulate(@, args.rawBpm, args.rmssd)]
    /\ result' = [fn |-> "accumulate", report |-> getFinalReport(processor')]
    /\ lastOp' = "accumulate"
    /\ appUnchanged

\* the stress line of the alternative processor, on the window of args
callStressAlt ==
    /\ result = NoCall
    /\ result' = [fn |-> "stressAlt", stress |-> stressOfAlt(args.rawBpm, args.rmssd)]
    /\ lastOp' = "stressAlt"
    /\ UNCHANGED processor
    /\ appUnchanged

NextStress ==
    \/ callAccumulate
    \/ callStressAlt

SpecStress == InitStress /\ [][NextStress]_vars

-----------------------------------------------------------------------------
(* The HRV step on its own, on the peaks of a window.                        *)

\* samples between two peaks findPeaks can return (at least 3: a peak
\* exceeds its two neighbours on each side), and sampling periods in ms
PeakGaps == {3, 5, 10, 20}
SamplePeriods == {50, 100}

RECURSIVE peaksFrom(_, _)
peaksFrom(first, gaps) ==
    IF gaps = <<>> THEN <<first>>
    ELSE <<first>> \o peaksFrom(first + Head(gaps), Tail(gaps))

\* up to four peaks, the first at position 2
PeakLists ==
    {<<>>} \cup {peaksFrom(2, gaps) : gaps \in UNION {[1..k -> PeakGaps] : k \in 0..3}}

InitHrv ==
    /\ processor = NewProcessor
    /\ IdleApp
    /\ args \in {[fn |-> "rmssd", peaks |-> ps, msPerSample |-> ms] :
                    ps \in PeakLists, ms \in SamplePeriods}

callRmssd ==
    /\ result = NoCall
    /\ result' = [fn |-> "rmssd",
                  rmssd |-> rmssdOf(args.peaks, args.msPerSample),
                  terms |-> hrvTerms(args.peaks, args.msPerSample)]
    /\ lastOp' = "rmssd"
    /\ UNCHANGED processor
    /\ appUnchanged

NextHrv == callRmssd

SpecHrv == InitHrv /\ [][NextHrv]_vars

-----------------------------------------------------------------------------
(* applyFilter on its own, of both processors, on every sequence of up to    *)
(* MaxFilterLen samples.                                                     *)

\* sample values: g - r of the two frames, and a green average
FilterValues == {-40, 0, 110}

FilterInputs == UNION {[1..k -> FilterValues] : k \in 0..MaxFilterLen}

InitFilter ==
    /\ processor = NewProcessor
    /\ IdleApp
    /\ args \in {[fn |-> "applyFilter", data |-> d] : d \in FilterInputs}

callApplyFilter ==
    /\ result = NoCall
    /\ result' = [fn |-> "applyFilter", out |-> applyFilter(args.data)]
    /\ lastOp' = "applyFilter"
    /\ UNCHANGED processor
    /\ appUnchanged

callApplyFilterAlt ==
    /\ result = NoCall
    /\ result' = [fn |-> "applyFilterAlt", out |-> applyFilterAlt(args.data)]
    /\ lastOp' = "applyFilterAlt"
    /\ UNCHANGED processor
    /\ appUnchanged

NextFilter ==
    \/ callApplyFilter
    \/ callApplyFilterAlt

SpecFilter == InitFilter /\ [][NextFilter]_vars

-----------------------------------------------------------------------------
(* The spectrum of calculateMetrics on a pure sine: the Hamming window, the  *)
(* zero-padded transform of computeFFT and the search for the dominant bin.  *)
(* Angles are counted in 1/TURN of a full turn and values in thousandths;    *)
(* the analysed window recentData is the sine itself, FftGrid samples per    *)
(* tone period unit, so a tone k at rate r has frequency k * r / FftGrid.    *)

MIN_BPM == 40
MAX_BPM == 200

\* 2 * Math.PI, in the angle unit of the cosine table
TURN == 480

\* Math.cos over the first quarter turn, in thousandths
CosQuarter ==
    << 1000, 1000, 1000, 999, 999, 998, 997, 996, 995, 993, 991,
       990, 988, 986, 983, 981, 978, 975, 972, 969, 966, 962,
       959, 955, 951, 947, 943, 938, 934, 929, 924, 919, 914,
       908, 903, 897, 891, 885, 879, 872, 866, 859, 853, 846,
       839, 831, 824, 817, 809, 801, 793, 785, 777, 769, 760,
       752, 743, 734, 725, 716, 707, 698, 688, 679, 669, 659,
       649, 639, 629, 619, 609, 598, 588, 577, 566, 556, 545,
       534, 522, 511, 500, 489, 477, 466, 454, 442, 431, 419,
       407, 395, 383, 371, 358, 346, 334, 321, 309, 297, 284,
       271, 259, 246, 233, 221, 208, 195, 182, 169, 156, 143,
       131, 118, 105, 92, 78, 65, 52, 39, 26, 13, 0 >>

Cos(a) ==
    LET m == a % TURN
    IN  IF m <= TURN \div 4 THEN CosQuarter[m + 1]
        ELSE IF m <= TURN \div 2 THEN 0 - CosQuarter[TURN \div 2 - m + 1]
        ELSE IF m <= 3 * (TURN \div 4) THEN 0 - CosQuarter[m - TURN \div 2 + 1]
        ELSE CosQuarter[TURN - m + 1]

Sin(a) == Cos(a + 3 * (TURN \div 4))

\* samples per turn of tone 1
FftGrid == 16

MinFftLen == 4
MaxFftLen == 16

\* window lengths whose Hamming angles fall on the cosine table
FftLengths == {L \in MinFftLen..MaxFftLen : TURN % (L - 1) = 0}

\* sample rates, in Hz
FftRates == {8, 16}

\* tones whose frequency k * r / FftGrid lies in the searched band
FftTones(r) ==
    {k \in 1..FftGrid : /\ MIN_BPM * FftGrid <= 60 * k * r
                        /\ 60 * k * r <= MAX_BPM * FftGrid}

\* the window holding sin(2 pi f t / r), f = k * r / FftGrid, t = 0..L-1
sine(k, L) == [t \in 1..L |-> Sin((TURN * k * (t - 1)) \div FftGrid)]

windowed(recentData) ==
    [i \in 1..Len(recentData) |->
        (recentData[i]
            * (540 - (460 * Cos((TURN * (i - 1)) \div (Len(recentData) - 1)))
                        \div 1000)) \div 1000]

RECURSIVE powerOf2(_)
powerOf2(n) == IF n <= 1 THEN 1 ELSE 2 * powerOf2((n + 1) \div 2)

RECURSIVE fftReal(_, _, _, _)
fftReal(x, i, P, t) ==
    IF t > Len(x) THEN 0
    ELSE (x[t] * Cos((TURN * i * (t - 1)) \div P)) \div 1000
            + fftReal(x, i, P, t + 1)

RECURSIVE fftImag(_, _, _, _)
fftImag(x, i, P, t) ==
    IF t > Len(x) THEN 0
    ELSE (x[t] * Sin((TURN * i * (t - 1)) \div P)) \div 1000
            + fftImag(x, i, P, t + 1)

\* the squared magnitudes of bins 0 .. powerOf2/2 - 1 (entry i + 1 is bin i);
\* the square root the code takes does not change their order
computeFFT(inputReal) ==
    LET P == powerOf2(Len(inputReal))
    IN  [j \in 1..(P \div 2) |->
            LET re == fftReal(inputReal, j - 1, P, 1)
                im == fftImag(inputReal, j - 1, P, 1)
            IN  re * re + im * im]

minBin(L, r) == (MIN_BPM * L) \div (60 * r)
maxBin(L, r) == (MAX_BPM * L + 60 * r - 1) \div (60 * r)

\* the loop from bin i on; a bin past the end of the spectrum reads
\* undefined, which is never greater than maxMag
RECURSIVE peakFrom(_, _, _, _, _)
peakFrom(spectrum, i, last, maxMag, maxIndex) ==
    IF i > last THEN maxIndex
    ELSE IF i + 1 <= Len(spectrum) /\ spectrum[i + 1] > maxMag
         THEN peakFrom(spectrum, i + 1, last, spectrum[i + 1], i)
         ELSE peakFrom(spectrum, i + 1, last, maxMag, maxIndex)

\* maxIndex; the frequency assigned to it is maxIndex * binSize with
\* binSize = r / Len(recentData)
dominantBin(recentData, r) ==
    LET L == Len(recentData)
    IN  peakFrom(computeFFT(windowed(recentData)),
                 minBin(L, r), maxBin(L, r), 0, 0)

InitFft ==
    /\ processor = NewProcessor
    /\ IdleApp
    /\ args \in {[fn |-> "dominantBin", k |-> k, L |-> L, r |-> r] :
                    k \in 1..FftGrid, L \in FftLengths, r \in FftRates}
    /\ args.k \in FftTones(args.r)

callDominantBin ==
    /\ result = NoCall
    /\ result' = [fn |-> "dominantBin",
                  maxIndex |-> dominantBin(sine(args.k, args.L), args.r)]
    /\ lastOp' = "dominantBin"
    /\ UNCHANGED processor
    /\ appUnchanged

NextFft == callDominantBin

SpecFft == InitFft /\ [][NextFft]_vars

-----------------------------------------------------------------------------
(* Properties.                                                               *)

EmptyMetrics == [bpm |-> <<>>, hrv |-> <<>>, stress |-> <<>>]

Phases == {IDLE, CALIBRATING, MEASURING, REPORT}

\* C1 (SpecStore): the store never holds more than BUFFER_SIZE samples; the
\* sample added last is its last element; once more than BUFFER_SIZE samples
\* were added since the last reset the store is full and its first element is
\* no longer the oldest sample added but the one BUFFER_SIZE places from the end.
C1_BufferBound ==
    LET k == Len(added)
        n == Len(processor.buffer)
    IN  /\ n <= BUFFER_SIZE
        /\ k > 0 => /\ n > 0
                    /\ processor.buffer[n] = added[k][1]
                    /\ processor.timestamps[Len(processor.timestamps)] = added[k][2]
        /\ k > BUFFER_SIZE => /\ n = BUFFER_SIZE
                              /\ processor.buffer[1] = added[k - BUFFER_SIZE + 1][1]

C1_Witness ==
    /\ lastOp = "addSample"
    /\ Len(added) > BUFFER_SIZE
    /\ Len(processor.buffer) = BUFFER_SIZE
    /\ added[1] # added[Len(added) - BUFFER_SIZE + 1]

\* C2 (SpecStore): buffer and timestamps hold exactly the last
\* min(k, BUFFER_SIZE) of the k pairs added since the last reset, in arrival
\* order, each value with the timestamp it came with.
C2_FifoPairs ==
    LET k == Len(added)
        m == Min(k, BUFFER_SIZE)
    IN  /\ Len(processor.buffer) = m
        /\ Len(processor.timestamps) = m
        /\ \A i \in 1..m :
              /\ processor.buffer[i] = added[k - m + i][1]
              /\ processor.timestamps[i] = added[k - m + i][2]

C2_Witness ==
    /\ Len(added) = BUFFER_SIZE + 1
    /\ added[1][2] # added[2][2]
    /\ added[1][1] # added[2][1]
    /\ processor.timestamps[1] = added[2][2]

\* C3 (Spec): the phase is always one of Idle, Calibrating, Measuring and
\* Report, and it changes only Idle -> Calibrating by startMonitoring,
\* Calibrating -> Measuring by a frame, Measuring -> Report by a timer tick
\* (finishScan) and Report -> Idle by resetApp.
C3_PhaseTransitions ==
    /\ appState \in Phases
    /\ [][ /\ appState' \in Phases
           /\ appState' # appState =>
                \/ appState = IDLE /\ appState' = CALIBRATING /\ lastOp' = "start"
                \/ appState = CALIBRATING /\ appState' = MEASURING /\ lastOp' = "frame"
                \/ appState = MEASURING /\ appState' = REPORT /\ lastOp' = "tick"
                \/ appState = REPORT /\ appState' = IDLE /\ lastOp' = "resetApp" ]_vars

C3_Witness == appState = CALIBRATING /\ session = 2 /\ lastOp = "frame"

\* C4 (Spec): at every change from Idle to Calibrating the processor is as
\* freshly constructed: buffer, timestamps and the three sessionMetrics
\* sequences empty, lastBpm 0.
C4_StartResets ==
    [][appState = IDLE /\ appState' = CALIBRATING => processor' = NewProcessor]_vars

C4_Witness ==
    /\ lastOp = "start"
    /\ session = 2
    /\ processor = NewProcessor
    /\ frameCountRef > CALIBRATION_SAMPLES
    /\ ticks >= SCAN_DURATION

\* C5 (Spec): every session starts from the values the first one started
\* from: frame counter 0, full remaining time, zeroed biomarkers.
C5_SessionsStartAlike ==
    lastOp = "start" =>
        /\ frameCountRef = 0
        /\ timeLeft = SCAN_DURATION
        /\ biomarkers = [bpm |-> 0, hrv |-> 0, stress |-> 0, spo2 |-> 0,
                         respirationRate |-> 0, confidence |-> 0]

\* C6 (Spec): while the phase is Calibrating every frame handled so far is in
\* the store, calculateMetrics was not called, sessionMetrics is empty and
\* lastBpm is 0.
C6_NoAnalysisWhileCalibrating ==
    appState = CALIBRATING =>
        /\ metricsCalls = 0
        /\ processor.sessionMetrics = EmptyMetrics
        /\ processor.lastBpm = 0
        /\ Len(processor.buffer) = Len(added)

C6_Witness ==
    /\ appState = CALIBRATING
    /\ lastOp = "frame"
    /\ frameCountRef % METRICS_EVERY = 0
    /\ Len(processor.buffer) >= MIN_FILTER

\* C7 (Spec): timeLeft is SCAN_DURATION on entry to Measuring, each tick
\* before expiry lowers it by one, and the change to Report comes with the
\* SCAN_DURATION-th tick after entry, whatever frames were handled meanwhile.
C7_FixedDuration ==
    /\ [](appState = MEASURING => timeLeft + ticks = SCAN_DURATION)
    /\ [][ /\ appState # MEASURING /\ appState' = MEASURING
                => timeLeft' = SCAN_DURATION /\ ticks' = 0
           /\ appState = MEASURING /\ lastOp' = "tick" /\ appState' = MEASURING
                => timeLeft' = timeLeft - 1
           /\ appState = MEASURING /\ lastOp' # "tick"
                => timeLeft' = timeLeft /\ appState' = MEASURING
           /\ appState = MEASURING /\ appState' = REPORT
                => ticks' = SCAN_DURATION /\ timeLeft' = 0 ]_vars

C7_Witness ==
    /\ appState = REPORT
    /\ lastOp = "tick"
    /\ reports = 1
    /\ ticks = SCAN_DURATION
    /\ metricsCalls > 0

\* C8 (Spec): getFinalReport is computed once per session: finishScan has run
\* exactly once when the phase is Report and never more than once.
C8_ReportOnce ==
    /\ reports <= 1
    /\ appState = REPORT => reports = 1

\* C9 (Spec): while the phase stays Report the displayed biomarkers and the
\* sessionMetrics do not change.
C9_ReportImmutable ==
    [][appState = REPORT /\ appState' = REPORT =>
          /\ biomarkers' = biomarkers
          /\ processor'.sessionMetrics = processor.sessionMetrics]_vars

\* C10 (SpecProc): a calculateMetrics call changes sessionMetrics only if
\* addToSession is true, the returned snr exceeds SNR_ACCEPT and the returned
\* bpm is strictly between BPM_LOW and BPM_HIGH; it then appends that bpm, one
\* stress value, and the rmssd if and only if it is positive.  Every stored
\* bpm is strictly between BPM_LOW and BPM_HIGH.
C10_AccumulationGate ==
    /\ [](\A i \in 1..Len(processor.sessionMetrics.bpm) :
            /\ processor.sessionMetrics.bpm[i] > BPM_LOW
            /\ processor.sessionMetrics.bpm[i] < BPM_HIGH)
    /\ [][lastOp' \in {"calculateMetrics(true)", "calculateMetrics(false)"} =>
            LET m == processor.sessionMetrics
                m2 == processor'.sessionMetrics
                ret == lastRet'
            IN  IF /\ lastOp' = "calculateMetrics(true)"
                   /\ ret.snr > SNR_ACCEPT
                   /\ ret.bpm > BPM_LOW
                   /\ ret.bpm < BPM_HIGH
                THEN /\ m2.bpm = Append(m.bpm, ret.bpm)
                     /\ Len(m2.stress) = Len(m.stress) + 1
                     /\ SubSeq(m2.stress, 1, Len(m.stress)) = m.stress
                     /\ m2.hrv = IF ret.rmssd > 0 THEN Append(m.hrv, ret.rmssd) ELSE m.hrv
                ELSE m2 = m]_vars

C10_Witness ==
    /\ lastOp = "calculateMetrics(true)"
    /\ Len(processor.sessionMetrics.bpm) = 2
    /\ Len(processor.sessionMetrics.stress) = 2
    /\ Len(processor.sessionMetrics.hrv) = 1

\* what the gate of a window reads: the returned snr and bpm
Passes(ret) == ret.snr > SNR_ACCEPT /\ ret.bpm > BPM_LOW /\ ret.bpm < BPM_HIGH

\* C11 (SpecScan): a frame of the Measuring phase whose window fails the gate
\* leaves sessionMetrics, the phase (Measuring) and timeLeft as they were; a
\* window that passes is accumulated whatever was rejected before it.
C11_RejectedWindowNotFatal ==
    [][lastOp' = "frame" /\ metricsCalls' = metricsCalls + 1 =>
          IF Passes(lastRet')
          THEN processor'.sessionMetrics.bpm =
                   Append(processor.sessionMetrics.bpm, lastRet'.bpm)
          ELSE /\ processor'.sessionMetrics = processor.sessionMetrics
               /\ appState = MEASURING
               /\ appState' = MEASURING
               /\ timeLeft' = timeLeft]_vars

\* a window was rejected, time went on, and the next window of the same
\* session was accepted
C11_Witness ==
    /\ lastOp = "frame"
    /\ appState = MEASURING
    /\ metricsCalls = 2
    /\ Passes(lastRet)
    /\ Len(processor.sessionMetrics.bpm) = 1
    /\ ticks > 0

MetricsOps == {"calculateMetrics(true)", "calculateMetrics(false)"}

\* C13 (SpecEvict): calculateMetrics on a store of at least MIN_METRICS
\* samples that all have the same value returns bpm 0 and snr 0 and leaves
\* sessionMetrics as it was, whatever lastBpm is.
C13_FlatWindowGivesZero ==
    [][/\ lastOp' \in MetricsOps
       /\ Len(processor.buffer) >= MIN_METRICS
       /\ IsFlat(processor.buffer)
       => /\ lastRet'.bpm = 0
          /\ lastRet'.snr = 0
          /\ processor'.sessionMetrics = processor.sessionMetrics]_vars

\* C14 (SpecProc): on a store of fewer than MIN_METRICS samples, the empty
\* store included, calculateMetrics returns {bpm: 0, rmssd: 0, snr: 0} and
\* leaves the processor (sessionMetrics, lastBpm, store) as it was; on a store
\* of fewer than MIN_FILTER samples processBuffer returns no filtered signal,
\* and from MIN_FILTER samples on one value per sample.
C14_TooFewSamples ==
    /\ [](IF Len(processor.buffer) < MIN_FILTER
          THEN processBuffer(processor) = <<>>
          ELSE Len(processBuffer(processor)) = Len(processor.buffer))
    /\ [][lastOp' \in MetricsOps /\ Len(processor.buffer) < MIN_METRICS =>
            /\ lastRet' = NoEstimate
            /\ processor' = processor]_vars

\* calculateMetrics ran on a store one sample short of MIN_METRICS whose
\* samples differ in value and in time, after an analysis that had run on
\* the empty store
C14_Witness ==
    /\ lastOp = "calculateMetrics(true)"
    /\ metricsCalls = 2
    /\ Len(processor.buffer) = MIN_METRICS - 1
    /\ ~IsFlat(processor.buffer)
    /\ processor.timestamps[1] # processor.timestamps[Len(processor.timestamps)]
    /\ lastRet = NoEstimate

\* C15 (SpecAlt): calculateMetrics on a store whose first and last
\* timestamps are equal returns {bpm: 0, rmssd: 0, snr: 0} and leaves
\* sessionMetrics and lastBpm as they were.
C15_ZeroDuration ==
    [][/\ lastOp' \in MetricsOps
       /\ Len(processor.timestamps) > 0
       /\ processor.timestamps[1] = processor.timestamps[Len(processor.timestamps)]
       => /\ lastRet' = NoEstimate
          /\ processor'.sessionMetrics = processor.sessionMetrics
          /\ processor'.lastBpm = processor.lastBpm]_vars

\* the session of the example: three windows around 70 and one far from them
ExampleRun == <<7000, 7100, 6900, 17000>>

\* the sets of positions of arr that hold more than half of its values
Majorities(arr) ==
    {I \in SUBSET (1..Len(arr)) : 2 * Cardinality(I) > Len(arr)}

\* v is the k-th smallest value of arr
Kth(arr, v, k) ==
    /\ Cardinality({i \in 1..Len(arr) : arr[i] < v}) < k
    /\ Cardinality({i \in 1..Len(arr) : arr[i] <= v}) >= k

C17_Confidence ==
    result.fn = "getFinalReport" =>
        LET count == Len(processor.sessionMetrics.bpm)
        IN  /\ count > CONFIDENCE_MIN => result.ret.confidence = 1
            /\ count <= CONFIDENCE_MIN => result.ret.confidence = 0

C17_Witness ==
    /\ result.fn = "getFinalReport"
    /\ Len(processor.sessionMetrics.bpm) = CONFIDENCE_MIN + 1
    /\ result.ret.confidence = 1

\* C18 (SpecStress): every stress value pushed to sessionMetrics lies in
\* [0, 100], and so does the stress of the report made of it; for the bpm of
\* the window no larger rmssd gives a larger stress.  The same holds of the
\* score of the alternative processor.
C18_StressRange ==
    /\ \A i \in 1..Len(processor.sessionMetrics.stress) :
           /\ processor.sessionMetrics.stress[i] >= 0
           /\ processor.sessionMetrics.stress[i] <= 10000
    /\ result.fn = "accumulate" =>
           /\ result.report.stress \in 0..100
           /\ Len(processor.sessionMetrics.stress) = 1
           /\ \A r \in StressRmssds :
                  r >= args.rmssd =>
                      stressOf(args.rawBpm, r) <= processor.sessionMetrics.stress[1]
    /\ result.fn = "stressAlt" =>
           /\ result.stress >= 0
           /\ result.stress <= 10000
           /\ \A r \in StressRmssds :
                  r >= args.rmssd => stressOfAlt(args.rawBpm, r) <= result.stress

\* a window with the highest accepted bpm and no variability was pushed: both
\* terms are at their upper clamp
C18_Witness ==
    /\ result.fn = "accumulate"
    /\ args.rawBpm = 17999
    /\ args.rmssd = 0
    /\ processor.sessionMetrics.stress = <<10000>>
    /\ result.report.stress = 100

\* C19 (SpecJump): a calculateMetrics call that analyses its window returns
\* and remembers 0.8 * lastBpm + 0.2 * raw when lastBpm > 0 and raw differs
\* from it by more than JUMP, and raw itself otherwise; reset sets lastBpm to
\* 0 and no other call changes it.
C19_JumpRejection ==
    [][LET prev == processor.lastBpm
           n == Len(processor.buffer)
       IN  IF /\ lastOp' \in MetricsOps
              /\ n >= MIN_METRICS
              /\ processor.timestamps[1] # processor.timestamps[n]
           THEN LET raw == args'.w.bpm
                    far == raw - prev > JUMP \/ prev - raw > JUMP
                    expected == IF prev > 0 /\ far
                                THEN (8 * prev + 2 * raw) \div 10
                                ELSE raw
                IN  /\ lastRet'.bpm = expected
                    /\ processor'.lastBpm = expected
           ELSE IF lastOp' = "reset"
           THEN processor'.lastBpm = 0
           ELSE processor'.lastBpm = prev]_vars

\* the second window of a session gave a bin just over 20 BPM above the
\* first estimate, and the blend was returned and remembered
C19_Witness ==
    /\ lastOp \in MetricsOps
    /\ metricsCalls = 2
    /\ args = [fn |-> "calculateMetrics", w |-> [bpm |-> 9001, rmssd |-> 0, snr |-> 140]]
    /\ lastRet.bpm = 7400
    /\ processor.lastBpm = 7400

\* C20 (SpecHrv): every delta that enters the sum is between two consecutive
\* peak-to-peak intervals that both lie strictly between RR_MIN and RR_MAX;
\* the rmssd is not negative, and it is 0 when no two consecutive intervals
\* are both valid (fewer than 3 valid peaks).
C20_ValidIntervalsOnly ==
    result.fn = "rmssd" =>
        LET peaks == args.peaks
            rr(i) == (peaks[i] - peaks[i - 1]) * args.msPerSample
            valid(i) == rr(i) > RR_MIN /\ rr(i) < RR_MAX
        IN  /\ \A i \in result.terms : valid(i) /\ valid(i - 1)
            /\ result.rmssd >= 0
            /\ (\A i \in 3..Len(peaks) : ~(valid(i) /\ valid(i - 1))) => result.rmssd = 0

\* C22 (SpecReset): after reset(), and after a second reset() right after
\* it, the processor is as freshly constructed (buffer, timestamps and the
\* three sessionMetrics sequences empty, lastBpm 0), whether or not a sample
\* had been added; a further reset() would leave it as it is.
C22_ResetIdempotent ==
    lastOp \in {"reset", "reset;reset"} =>
        /\ processor.buffer = <<>>
        /\ processor.timestamps = <<>>
        /\ processor.sessionMetrics = EmptyMetrics
        /\ processor.lastBpm = 0
        /\ processor = NewProcessor
        /\ reset(processor) = processor

\* reset() ran twice in a row
C22_Witness ==
    /\ lastOp = "reset;reset"
    /\ processor = NewProcessor
    /\ reset(reset(processor)) = reset(processor)

\* C23 (Spec): while the phase is Idle, after resetApp as well as before the
\* first start, the sample store and sessionMetrics are empty.
C23_StopClearsBuffers ==
    appState = IDLE =>
        /\ processor.buffer = <<>>
        /\ processor.timestamps = <<>>
        /\ processor.sessionMetrics = EmptyMetrics

\* C25 (Spec): a frame delivered while the phase is Idle or Report leaves
\* the processor (store, sessionMetrics, lastBpm), the frame counter, the
\* chart data and the biomarkers as they were, and runs no analysis.
C25_NoProcessingWhenStopped ==
    [][lastOp' \in {"frame", "frameIgnored"} /\ appState \in {IDLE, REPORT} =>
          /\ processor' = processor
          /\ frameCountRef' = frameCountRef
          /\ signalData' = signalData
          /\ biomarkers' = biomarkers
          /\ metricsCalls' = metricsCalls]_vars

\* the filter's radius: 3 samples, 4 in the alternative processor
Radius == IF result.fn = "applyFilter" THEN SMOOTH_WIN ELSE ALT_SMOOTH_WIN

C26_MeasuringHasEnoughSamples ==
    /\ [](appState = MEASURING => Len(processor.buffer) > ALT_CALIBRATION_SAMPLES)
    /\ [][lastOp' = "frame" /\ metricsCalls' = metricsCalls + 1 =>
            Len(processor'.buffer) >= ALT_MIN_METRICS]_vars

\* C27 (SpecWired): every frame handed over while the phase is Calibrating
\* or Measuring appends to the store the number g - r of the RGB averages the
\* capture layer computed for it, with the time of delivery.
C27_StoredValueIsGreenMinusRed ==
    [][lastOp' = "frame" =>
          LET k == Len(processor'.buffer)
              rgb == args'.result.rgb
          IN  /\ k > 0
              /\ processor'.buffer[k] # NaN
              /\ processor'.buffer[k] = rgb.g - rgb.r
              /\ processor'.timestamps[k] = now']_vars

\* C29 (SpecLive): once the phase is Measuring it becomes Report, with fair
\* timer ticks and effects alone, whatever frames arrive and whatever the
\* gate rejects; and when frames are delivered fairly as well, a session
\* that is Calibrating reaches Report.
C29_SessionEnds ==
    /\ (appState = MEASURING) ~> (appState = REPORT)
    /\ FairFrames => ((appState = CALIBRATING) ~> (appState = REPORT))

\* the report of a session whose only analysed window was rejected
C29_Witness ==
    /\ appState = REPORT
    /\ lastOp = "tick"
    /\ ticks = SCAN_DURATION
    /\ metricsCalls > 0
    /\ processor.sessionMetrics = EmptyMetrics

\* C30 (SpecReport): getFinalReport on a session in which no window was
\* accepted returns bpm, hrv, stress and respiration 0 and confidence 0: a
\* field of a report that is not 0 comes with at least one accepted window.
C30_EmptySessionNoEstimate ==
    result.fn \in {"getFinalReport", "getFinalReportAlt"} =>
        /\ processor.sessionMetrics = EmptyMetrics =>
               /\ result.ret.bpm = 0
               /\ result.ret.hrv = 0
               /\ result.ret.stress = 0
               /\ result.ret.respiration = 0
               /\ result.ret.confidence = 0
        /\ \/ result.ret.bpm # 0
           \/ result.ret.hrv # 0
           \/ result.ret.stress # 0
           \/ result.ret.respiration # 0
           => Len(processor.sessionMetrics.bpm) > 0

\* C28 (SpecWarmup): in the App with a warmup counter the phase changes
\* from Calibrating to Measuring when about WARMUP_COUNT frames were
\* delivered since the start: no fewer, and no more than one analysis
\* cadence beyond that.
C28_WarmupLength ==
    [][appState = CALIBRATING /\ appState' = MEASURING =>
          /\ Len(added') >= WARMUP_COUNT
          /\ Len(added') <= WARMUP_COUNT + WARMUP_EVERY]_vars

(* C21: for a pure sine of frequency f inside the searched band, sampled at  *)
(* rate r over an analysis window of L samples, the frequency maxIndex * r   *)
(* / L assigned to the dominant bin is within one bin width r / L of f, for  *)
(* every L.  With f = k * r / FftGrid this reads, times FftGrid * L / r:     *)
(* the distance of FftGrid * maxIndex from k * L is at most FftGrid.         *)
C21_SineWithinOneBin ==
    result.fn = "dominantBin" =>
        LET d == FftGrid * result.maxIndex - args.k * args.L
        IN  d <= FftGrid /\ 0 - d <= FftGrid

====
